---------------------------- MODULE Spec2Model ----------------------------
(***************************************************************************)
(* A model of the chat-completion service of gpt-discord-bot:              *)
(*   src/src/service/openai_service.py        (OpenAIService)              *)
(*   src/src/service/chat_service_factory.py  (ChatServiceFactory)         *)
(*                                                                         *)
(* Python values are tagged records, so that None, a str and a list can be *)
(* held by the same field and compared: None is [t |-> "None"], the str s  *)
(* is Str(s), a list is List(<<...>>).  Strings are TLA+ strings and the   *)
(* string operations (in, startswith, replace) are computed on their       *)
(* characters.                                                             *)
(***************************************************************************)
EXTENDS Integers, Sequences, FiniteSets, TLC

VARIABLES
    client,       \* self.client: "unset" until init_env() ran, then "ready"
    model,        \* self.model: None or a Model object
    pc,           \* "idle" | "awaiting" (send_prompt suspended at its await) | "done"
    op,           \* the operation pc is about, "none" when idle
    args,         \* the arguments of that operation
    request,      \* the request in flight to the backend, None when there is none
    createCalls,  \* invocations of _create_chat_completion by the current send_prompt
    requests,     \* client.chat.completions.create requests issued by the current send_prompt
    awaited,      \* how `await self._create_chat_completion(...)` ended: Return(response) or Raise(..)
    result,       \* how the operation ended: Return(value) or Raise(class, message)
    heap          \* the services constructed by ChatServiceFactory, in allocation order

vars == <<client, model, pc, op, args, request, createCalls, requests, awaited, result, heap>>

---------------------------------------------------------------------------
(* Bounds of the model. *)

MaxConversation == 2   \* longest conversation of a Prompt
MaxMessages == 2       \* longest message list given to count_token_usage
MaxFragments == 3      \* most fragments a fault message is made of
MaxServices == 3       \* most services constructed by the factory

---------------------------------------------------------------------------
(* Python values. *)

None == [t |-> "None"]
Str(s) == [t |-> "str", v |-> s]
List(xs) == [t |-> "list", v |-> xs]

Return(value) == [kind |-> "return", value |-> value]
Raise(cls, message) == [kind |-> "raise", cls |-> cls, message |-> message]

SeqsUpTo(S, n) == UNION { [1..k -> S] : k \in 0..n }

(* sub in s *)
Contains(s, sub) ==
    \E i \in 1..(Len(s) + 1) :
        /\ i + Len(sub) - 1 <= Len(s)
        /\ SubSeq(s, i, i + Len(sub) - 1) = sub

(* s.startswith(prefix) *)
StartsWith(s, prefix) ==
    /\ Len(prefix) <= Len(s)
    /\ SubSeq(s, 1, Len(prefix)) = prefix

(* s.replace(old, new): every non-overlapping occurrence, left to right *)
RECURSIVE Replace(_, _, _)
Replace(s, old, new) ==
    IF Len(s) < Len(old) THEN s
    ELSE IF SubSeq(s, 1, Len(old)) = old
         THEN new \o Replace(SubSeq(s, Len(old) + 1, Len(s)), old, new)
         ELSE SubSeq(s, 1, 1) \o Replace(SubSeq(s, 2, Len(s)), old, new)

RECURSIVE Concat(_)
Concat(ss) == IF ss = <<>> THEN "" ELSE Head(ss) \o Concat(Tail(ss))

---------------------------------------------------------------------------
(* The data model: Role, Message, Prompt, Model, CompletionData. *)

Roles == {"system", "user", "assistant"}

Message(role, name, content, image_url) ==
    [t |-> "Message", role |-> role, name |-> name,
     content |-> content, image_url |-> image_url]

(* The messages the operations are given: every role, with and without a
   name, with and without an attached image. *)
Messages ==
    { Message(Str(r), n, Str("Hello"), u) :
        r \in Roles, n \in {None, Str("bob")}, u \in {None, Str("https://img/1.png")} }

Prompt(conversation, header) ==
    [t |-> "Prompt", conversation |-> conversation, header |-> header]

Model(name) == [t |-> "Model", name |-> name]

(* Model names: OpenAI and Azure spellings of both supported families, a name
   with a supported prefix that no tokenizer table lists, and names of other
   families. *)
ModelNames ==
    {"gpt-3.5-turbo", "gpt-35-turbo-16k", "gpt-4", "gpt-4x", "gpt-35", "gemini-pro"}

Models == {None} \cup { Model(n) : n \in ModelNames }

CompletionData(status, reply_text, status_text) ==
    [status |-> status, reply_text |-> reply_text, status_text |-> status_text]

CompletionResult == {"OK", "TOO_LONG", "BLOCKED", "INVALID_REQUEST", "OTHER_ERROR"}

---------------------------------------------------------------------------
(* Prompt Renderer: render_message, render_prompt. *)

build_content(message) ==
    IF message.image_url # None
    THEN List(<< [type |-> "text", text |-> message.content],
                 [type |-> "image_url", image_url |-> [url |-> message.image_url]] >>)
    ELSE message.content

(* The keys of the rendered dict, in insertion order. *)
RenderedKeys == <<"role", "name", "content">>

render_message(message) ==
    LET rendered == [role |-> message.role,
                     name |-> message.name,
                     content |-> build_content(message)]
    IN  [k \in {j \in DOMAIN rendered : rendered[j] # None} |-> rendered[k]]

(* Mutant: the header is appended after the conversation. *)
render_prompt_HeaderLast(prompt) ==
    LET header == IF prompt.header # None
                  THEN <<render_message(prompt.header)>>
                  ELSE <<>>
    IN  [i \in 1..Len(prompt.conversation) |->
            render_message(prompt.conversation[i])] \o header

render_prompt(prompt) ==
    LET header == IF prompt.header # None
                  THEN <<render_message(prompt.header)>>
                  ELSE <<>>
    IN  header \o [i \in 1..Len(prompt.conversation) |->
                     render_message(prompt.conversation[i])]

(* build_system_message and build_prompt: the header is the system message
   and the None placeholders of the history are dropped. *)
build_system_message ==
    Message(Str("system"),
            None,
            Str("You are ChatGPT, a large language model trained by OpenAI. Your job is to answer questions accurately and provide detailed example."),
            None)

RECURSIVE FilterNotNone(_)
FilterNotNone(history) ==
    IF history = <<>> THEN <<>>
    ELSE IF Head(history) # None
         THEN <<Head(history)>> \o FilterNotNone(Tail(history))
         ELSE FilterNotNone(Tail(history))

build_prompt(history) ==
    Prompt(FilterNotNone(history), build_system_message)

(* The histories the application sends: None placeholders, a plain user
   message and a named user message with an image. *)
HistoryItems ==
    {None,
     Message(Str("user"), None, Str("Hello"), None),
     Message(Str("user"), Str("bob"), Str("Hello"), Str("https://img/1.png"))}

Histories == SeqsUpTo(HistoryItems, MaxConversation)

Prompts ==
    { Prompt(c, h) : c \in SeqsUpTo(Messages, MaxConversation),
                     h \in {None} \cup Messages }

---------------------------------------------------------------------------
(* Completion Invoker and Result Classifier: send_prompt. *)

(* The exception classes that occur.  CancelledError derives from
   BaseException and not from Exception; every other class derives from
   Exception. *)
BackendFaultClasses ==
    {"BadRequestError", "APIConnectionError", "AuthenticationError", "APITimeoutError"}

IsBadRequestError(cls) == cls = "BadRequestError"

IsException(cls) == cls # "CancelledError"

(* The pieces fault messages are made of; a message is the concatenation of
   at most MaxFragments of them. *)
Fragments ==
    {"This model's ", "maximum context length", "filtered", "Connection error."}

FaultMessages == { Concat(fs) : fs \in SeqsUpTo(Fragments, MaxFragments) }

(* A ChatCompletion: choices is a list of choices, each with a message whose
   content is a str or None. *)
Choice(content) == [message |-> [role |-> "assistant", content |-> content]]

Responses ==
    { [t |-> "ChatCompletion", choices |-> cs] :
        cs \in { <<>>,
                 <<Choice(None)>>,
                 <<Choice(Str(""))>>,
                 <<Choice(Str("Hi"))>>,
                 <<Choice(Str("Hi")), Choice(Str("Hello there"))>> } }

(* What the backend answers a request with. *)
BackendOutcomes ==
    { Return(r) : r \in Responses }
        \cup { Raise(c, m) : c \in BackendFaultClasses, m \in FaultMessages }

(* The body of the try block from the point where the await has ended. *)
try_body(outcome) ==
    IF outcome.kind = "raise" THEN outcome
    ELSE IF Len(outcome.value.choices) = 0
         THEN Raise("IndexError", "list index out of range")
         ELSE Return(CompletionData("OK",
                                    outcome.value.choices[1].message.content,
                                    None))

(* Mutant: the "filtered" marker is tested before the context-length marker. *)
except_BadRequestError_FilteredFirst(err) ==
    IF Contains(err.message, "filtered")
    THEN Return(CompletionData("BLOCKED", None, Str(err.message)))
    ELSE IF Contains(err.message, "This model's maximum context length")
         THEN Return(CompletionData("TOO_LONG", None, Str(err.message)))
         ELSE Return(CompletionData("INVALID_REQUEST", None, Str(err.message)))

(* err.message and str(err) are the same text for the SDK's errors. *)
except_BadRequestError(err) ==
    IF Contains(err.message, "This model's maximum context length")
    THEN Return(CompletionData("TOO_LONG", None, Str(err.message)))
    ELSE IF Contains(err.message, "filtered")
         THEN Return(CompletionData("BLOCKED", None, Str(err.message)))
         ELSE Return(CompletionData("INVALID_REQUEST", None, Str(err.message)))

(* Mutant: the catch-all clause classifies by the message, as the
   bad-request clause does. *)
except_Exception_ByMessage(err) ==
    IF Contains(err.message, "This model's maximum context length")
    THEN Return(CompletionData("TOO_LONG", None, Str(err.message)))
    ELSE IF Contains(err.message, "filtered")
         THEN Return(CompletionData("BLOCKED", None, Str(err.message)))
         ELSE Return(CompletionData("OTHER_ERROR", None, Str(err.message)))

except_Exception(err) ==
    Return(CompletionData("OTHER_ERROR", None, Str(err.message)))

(* The except clauses, in order; an exception that matches none propagates. *)
except_clauses(err) ==
    IF IsBadRequestError(err.cls) THEN except_BadRequestError(err)
    ELSE IF IsException(err.cls) THEN except_Exception(err)
    ELSE err

try_except(outcome) ==
    LET r == try_body(outcome)
    IN  IF r.kind = "raise" THEN except_clauses(r) ELSE r

(* _create_chat_completion up to its await: the attribute lookups that come
   before the request is issued. *)
create_chat_completion(rendered) ==
    IF client = "unset"
    THEN Raise("AttributeError", "'OpenAIService' object has no attribute 'client'")
    ELSE IF model = None
         THEN Raise("AttributeError", "'NoneType' object has no attribute 'name'")
         ELSE Return([model |-> model.name, messages |-> rendered])

Idle ==
    /\ pc = "idle"

ToIdle ==
    /\ pc' = "idle"
    /\ op' = "none"
    /\ args' = None
    /\ request' = None
    /\ createCalls' = 0
    /\ requests' = 0
    /\ awaited' = None
    /\ result' = None

init_env ==
    /\ Idle
    /\ client = "unset"
    /\ client' = "ready"
    /\ UNCHANGED <<model, pc, op, args, request, createCalls, requests, awaited, result, heap>>

(* send_prompt from its entry to the await, or to its end when the request
   is never issued. *)
send_prompt ==
    /\ Idle
    /\ \E history \in Histories :
          LET prompt == build_prompt(history)
              rendered_prompt == render_prompt(prompt)
              call == create_chat_completion(rendered_prompt)
          IN  /\ op' = "send_prompt"
              /\ args' = None
              /\ createCalls' = createCalls + 1
              /\ IF call.kind = "return"
                 THEN /\ request' = call.value
                      /\ requests' = requests + 1
                      /\ pc' = "awaiting"
                      /\ UNCHANGED <<awaited, result>>
                 ELSE /\ awaited' = call
                      /\ result' = try_except(call)
                      /\ pc' = "done"
                      /\ UNCHANGED <<request, requests>>
    /\ UNCHANGED <<client, model, heap>>

(* Mutant: a fault makes send_prompt call _create_chat_completion once more. *)
BackendRespond_Retry ==
    /\ pc = "awaiting"
    /\ \E outcome \in BackendOutcomes :
          /\ awaited' = outcome
          /\ IF outcome.kind = "raise" /\ createCalls < 2
             THEN /\ createCalls' = createCalls + 1
                  /\ requests' = requests + 1
                  /\ UNCHANGED <<pc, request, result>>
             ELSE /\ result' = try_except(outcome)
                  /\ pc' = "done"
                  /\ request' = None
                  /\ UNCHANGED <<createCalls, requests>>
    /\ UNCHANGED <<client, model, op, args, heap>>

(* The backend answers the request in flight and send_prompt runs to its end. *)
BackendRespond ==
    /\ pc = "awaiting"
    /\ \E outcome \in BackendOutcomes :
          /\ awaited' = outcome
          /\ result' = try_except(outcome)
    /\ pc' = "done"
    /\ request' = None
    /\ UNCHANGED <<client, model, op, args, createCalls, requests, heap>>

(* The task awaiting send_prompt is cancelled: CancelledError is raised at
   the await. *)
Cancel ==
    /\ pc = "awaiting"
    /\ awaited' = Raise("CancelledError", "")
    /\ result' = try_except(Raise("CancelledError", ""))
    /\ pc' = "done"
    /\ request' = None
    /\ UNCHANGED <<client, model, op, args, createCalls, requests, heap>>

(* The caller takes the result. *)
Finish ==
    /\ pc = "done"
    /\ ToIdle
    /\ UNCHANGED <<client, model, heap>>

Init ==
    /\ client = "unset"
    /\ model \in Models
    /\ pc = "idle"
    /\ op = "none"
    /\ args = None
    /\ request = None
    /\ createCalls = 0
    /\ requests = 0
    /\ awaited = None
    /\ result = None
    /\ heap = <<>>

Next ==
    \/ init_env
    \/ send_prompt
    \/ BackendRespond
    \/ Cancel
    \/ Finish

Spec == Init /\ [][Next]_vars

---------------------------------------------------------------------------
(* Prompt Renderer as an operation of its own. *)

render_prompt_call ==
    /\ Idle
    /\ \E prompt \in Prompts :
          /\ args' = prompt
          /\ result' = Return(render_prompt(prompt))
    /\ op' = "render_prompt"
    /\ pc' = "done"
    /\ UNCHANGED <<client, model, request, createCalls, requests, awaited, heap>>

NextRender ==
    \/ render_prompt_call
    \/ Finish

SpecRender == Init /\ [][NextRender]_vars

---------------------------------------------------------------------------
(* Token Accountant: count_token_usage. *)

(* The strings count_token_usage hands to the tokenizer for Messages. *)
CountedStrings ==
    UNION { {m.role.v, m.content.v} \cup (IF m.name # None THEN {m.name.v} ELSE {})
            : m \in Messages }

(* A tokenizer encoding, as far as count_token_usage uses it: the number of
   tokens of each string.  Every table with one or two tokens per string is
   tried, so that the strings of a message can differ in their counts. *)
TokenCounts == {1, 2}

TokenTables == [CountedStrings -> TokenCounts]

(* __convert_model_name *)
convert_model_name ==
    IF StartsWith(model.name, "gpt-35")
    THEN Replace(model.name, "gpt-35", "gpt-3.5")
    ELSE model.name

(* encoding_for_model(model_name), with the KeyError of an unknown name
   caught and answered by get_encoding("cl100k_base"). *)
resolve_encoding(model_name, known) ==
    IF known THEN "encoding_for_model(" \o model_name \o ")"
    ELSE "cl100k_base"

(* len(encoding.encode(value)): the tokenizer takes a str and raises
   TypeError for anything else. *)
encode_len(tk, value) ==
    IF value.t = "str" THEN Return(tk[value.v])
    ELSE Raise("TypeError", "expected string or bytes-like object")

(* The inner loop: the items of one rendered message, in dict order. *)
RECURSIVE add_items(_, _, _, _, _)
add_items(num_tokens, rendered, keys, tk, tokens_per_name) ==
    IF keys = <<>> THEN Return(num_tokens)
    ELSE LET key == Head(keys)
             n == encode_len(tk, rendered[key])
         IN  IF n.kind = "raise" THEN n
             ELSE add_items(num_tokens + n.value
                                + (IF key = "name" THEN tokens_per_name ELSE 0),
                            rendered, Tail(keys), tk, tokens_per_name)

(* The outer loop and the reply primer. *)
RECURSIVE add_messages(_, _, _, _, _)
add_messages(num_tokens, messages, tk, tokens_per_message, tokens_per_name) ==
    IF messages = <<>> THEN Return(num_tokens + 3)
    ELSE LET rendered == render_message(Head(messages))
             keys == SelectSeq(RenderedKeys, LAMBDA k : k \in DOMAIN rendered)
             r == add_items(num_tokens + tokens_per_message, rendered, keys,
                            tk, tokens_per_name)
         IN  IF r.kind = "raise" THEN r
             ELSE add_messages(r.value, Tail(messages), tk,
                               tokens_per_message, tokens_per_name)

(* The f-string of the raise: its text runs over two source lines, so it
   holds the line break and the indentation of the second line. *)
UnsupportedFamily(model_name) ==
    Raise("NotImplementedError",
          "num_tokens_from_messages() is not implemented for model "
              \o model_name
              \o ". See https://github.com\n                /openai/openai -python/blob/main/chatml.md for information on how messages are converted to tokens.")

(* Mutant: a model of neither family is counted with the gpt-4 constants. *)
count_token_usage_DefaultFamily(messages, tk) ==
    IF model = None THEN Raise("ValueError", "Model is not set.")
    ELSE LET model_name == convert_model_name
         IN  IF StartsWith(model_name, "gpt-3.5-turbo")
             THEN add_messages(0, messages, tk, 4, -1)
             ELSE add_messages(0, messages, tk, 3, 1)

(* Mutant: the constants of the two families are exchanged. *)
count_token_usage_FamiliesSwapped(messages, tk) ==
    IF model = None THEN Raise("ValueError", "Model is not set.")
    ELSE LET model_name == convert_model_name
         IN  IF StartsWith(model_name, "gpt-3.5-turbo")
             THEN add_messages(0, messages, tk, 3, 1)
             ELSE IF StartsWith(model_name, "gpt-4")
                  THEN add_messages(0, messages, tk, 4, -1)
                  ELSE UnsupportedFamily(model_name)

(* count_token_usage; tk is the table of the encoding that was resolved. *)
count_token_usage(messages, tk) ==
    IF model = None THEN Raise("ValueError", "Model is not set.")
    ELSE LET model_name == convert_model_name
         IN  IF StartsWith(model_name, "gpt-3.5-turbo")
             THEN add_messages(0, messages, tk, 4, -1)
             ELSE IF StartsWith(model_name, "gpt-4")
                  THEN add_messages(0, messages, tk, 3, 1)
                  ELSE UnsupportedFamily(model_name)

count_token_usage_call ==
    /\ Idle
    /\ \E messages \in SeqsUpTo(Messages, MaxMessages), known \in BOOLEAN,
          tk \in TokenTables :
          /\ args' = [messages |-> messages,
                      known |-> known,
                      encoding |-> IF model = None THEN None
                                   ELSE Str(resolve_encoding(convert_model_name, known)),
                      tk |-> tk]
          /\ result' = count_token_usage(messages, tk)
    /\ op' = "count_token_usage"
    /\ pc' = "done"
    /\ UNCHANGED <<client, model, request, createCalls, requests, awaited, heap>>

NextCount ==
    \/ count_token_usage_call
    \/ Finish

SpecCount == Init /\ [][NextCount]_vars

---------------------------------------------------------------------------
(* Service Selector: ChatServiceFactory.get_service_cls. *)

ServiceType(name) == [t |-> "ChatServiceType", name |-> name]

ChatServiceType == { ServiceType(n) : n \in {"OPENAI", "AZURE", "GENAI"} }

(* What get_service_cls is called with: the three identifiers and values
   outside the closed set. *)
Identifiers == ChatServiceType \cup {ServiceType("OTHER"), None, Str("bard")}

(* str(service_type), as the f-string of the ValueError formats it: an enum
   member as ClassName.MEMBER, None as "None", a str as itself. *)
format_service_type(service_type) ==
    IF service_type = None THEN "None"
    ELSE IF service_type.t = "str" THEN service_type.v
    ELSE "ChatServiceType." \o service_type.name

(* Mutant: an identifier outside the set falls through and None is returned. *)
get_service_cls_FallThrough(service_type) ==
    IF service_type = ServiceType("OPENAI") THEN Return("OpenAIService")
    ELSE IF service_type = ServiceType("AZURE") THEN Return("AzureOpenAIService")
    ELSE IF service_type = ServiceType("GENAI") THEN Return("GenaiService")
    ELSE Return("NoneType")

(* get_service_cls: the class that is constructed, or the ValueError. *)
get_service_cls(service_type) ==
    IF service_type = ServiceType("OPENAI") THEN Return("OpenAIService")
    ELSE IF service_type = ServiceType("AZURE") THEN Return("AzureOpenAIService")
    ELSE IF service_type = ServiceType("GENAI") THEN Return("GenaiService")
    ELSE Raise("ValueError",
               "Unknown chat service type: " \o format_service_type(service_type))

(* A call of get_service_cls: a returned service is a newly allocated
   object, named by its place in the heap. *)
get_service_cls_call ==
    /\ Idle
    /\ Len(heap) < MaxServices
    /\ \E service_type \in Identifiers :
          LET r == get_service_cls(service_type)
          IN  /\ args' = service_type
              /\ IF r.kind = "return" /\ r.value # "NoneType"
                 THEN /\ heap' = Append(heap, [cls |-> r.value])
                      /\ result' = Return([t |-> "ref", id |-> Len(heap) + 1])
                 ELSE /\ heap' = heap
                      /\ result' = IF r.kind = "return" THEN Return(None) ELSE r
    /\ op' = "get_service_cls"
    /\ pc' = "done"
    /\ UNCHANGED <<client, model, request, createCalls, requests, awaited>>

NextFactory ==
    \/ get_service_cls_call
    \/ Finish

SpecFactory == Init /\ [][NextFactory]_vars

---------------------------------------------------------------------------
(* Properties of render_prompt, count_token_usage and get_service_cls. *)

RenderDone == pc = "done" /\ op = "render_prompt"

CountDone == pc = "done" /\ op = "count_token_usage"

FactoryDone == pc = "done" /\ op = "get_service_cls"

(* C8: render_prompt returns a sequence of length (1 if the header is
   present, else 0) + |conversation|: the header's wire message first, when
   there is one, then the wire message of each conversation message in the
   order of prompt.conversation. *)
C8_RenderOrder ==
    RenderDone =>
        LET out == result.value
            off == IF args.header # None THEN 1 ELSE 0
        IN  /\ result.kind = "return"
            /\ Len(out) = off + Len(args.conversation)
            /\ (args.header # None) => out[1] = render_message(args.header)
            /\ \A i \in 1..Len(args.conversation) :
                  out[off + i] = render_message(args.conversation[i])

C8_Witness ==
    /\ RenderDone
    /\ args.header # None
    /\ Len(args.conversation) = 2
    /\ args.conversation[1] # args.conversation[2]
    /\ args.header # args.conversation[1]
    /\ Len(result.value) = 3
    /\ result.value[1] = render_message(args.header)
    /\ result.value[3] = render_message(args.conversation[2])

(* The case of C6: one user message without name and image, gpt-4 family. *)
C6_Case ==
    /\ CountDone
    /\ model # None
    /\ StartsWith(model.name, "gpt-4")
    /\ Len(args.messages) = 1
    /\ args.messages[1].role = Str("user")
    /\ args.messages[1].name = None
    /\ args.messages[1].image_url = None

(* C6, as claimed: in that case count_token_usage returns 3 (message
   overhead) + the token count of the content + 3 (reply primer), nothing
   else contributing. *)
C6_AsClaimed ==
    C6_Case =>
        result = Return(3 + args.tk[args.messages[1].content.v] + 3)

(* C6, amended: in that case count_token_usage returns 3 (message overhead)
   + the token count of the role value + the token count of the content + 3
   (reply primer), with no name adjustment. *)
C6_RoleAndContent ==
    C6_Case =>
        result = Return(3 + args.tk[args.messages[1].role.v]
                          + args.tk[args.messages[1].content.v] + 3)

C6_Witness ==
    /\ C6_Case
    /\ args.tk["user"] = 2
    /\ args.tk["Hello"] = 1
    /\ result = Return(9)

(* A name of a supported family: the gpt-3.5-turbo prefix in the OpenAI or
   the Azure spelling, or the gpt-4 prefix. *)
SupportedFamily(name) ==
    \/ StartsWith(name, "gpt-3.5-turbo")
    \/ StartsWith(name, "gpt-35-turbo")
    \/ StartsWith(name, "gpt-4")

HasImage(messages) == \E i \in 1..Len(messages) : messages[i].image_url # None

(* C7: for a model whose translated name has neither family prefix,
   count_token_usage returns no integer and fails with the unsupported-family
   error, for every message list (the empty one too) and also when the
   tokenizer lookup failed; a name the tokenizer does not know but with a
   supported prefix makes no such failure, the default encoding is used and
   the messages are counted. *)
C7_UnsupportedFamilyFails ==
    (CountDone /\ model # None) =>
        /\ ~SupportedFamily(model.name) =>
              /\ result.kind = "raise"
              /\ result.cls = "NotImplementedError"
              /\ StartsWith(result.message,
                            "num_tokens_from_messages() is not implemented for model ")
        /\ (SupportedFamily(model.name) /\ ~args.known) =>
              /\ args.encoding = Str("cl100k_base")
              /\ result.kind = "raise" => result.cls = "TypeError"
              /\ ~HasImage(args.messages) =>
                    (result.kind = "return" /\ result.value \in Nat)

C7_Witness ==
    /\ CountDone
    /\ model # None
    /\ model.name = "gpt-35"
    /\ args.messages = <<>>
    /\ ~args.known
    /\ result.kind = "raise"
    /\ result.cls = "NotImplementedError"

(* C10: under a supported model family count_token_usage returns an integer
   for every list of messages that render_message renders, messages with
   image_url set included. *)
C10_CountsImageMessages ==
    (CountDone /\ model # None /\ SupportedFamily(model.name)) =>
        (result.kind = "return" /\ result.value \in Int)

(* C9: get_service_cls returns, for each of OPENAI, AZURE and GENAI, a newly
   constructed service of the matching class, an object no earlier call
   returned; for any other identifier it raises the unsupported-backend
   error and returns nothing. *)
C9_FactoryDispatch ==
    /\ [](FactoryDone =>
            IF args \in ChatServiceType
            THEN /\ result.kind = "return"
                 /\ result.value # None
                 /\ result.value.id \in DOMAIN heap
                 /\ heap[result.value.id].cls =
                       (CASE args.name = "OPENAI" -> "OpenAIService"
                          [] args.name = "AZURE" -> "AzureOpenAIService"
                          [] args.name = "GENAI" -> "GenaiService")
            ELSE /\ result.kind = "raise"
                 /\ result.cls = "ValueError"
                 /\ StartsWith(result.message, "Unknown chat service type: "))
    /\ [][(/\ op' = "get_service_cls"
            /\ pc = "idle"
            /\ result'.kind = "return"
            /\ result'.value # None)
            => (/\ result'.value.id \notin DOMAIN heap
                /\ \A i \in DOMAIN heap : heap'[i] = heap[i])]_vars

C9_Witness ==
    /\ FactoryDone
    /\ args = ServiceType("GENAI")
    /\ result.kind = "return"
    /\ result.value.id = 2
    /\ heap[1].cls = "GenaiService"
    /\ heap[2].cls = "GenaiService"

---------------------------------------------------------------------------
(* Properties of send_prompt. *)

SendDone == pc = "done" /\ op = "send_prompt"

BadRequestDone ==
    /\ SendDone
    /\ awaited.kind = "raise"
    /\ awaited.cls = "BadRequestError"

Returned == result.kind = "return"

(* C1, as claimed: for a bad-request fault send_prompt returns TOO_LONG when
   the fault message contains "maximum context length", otherwise BLOCKED
   when it contains "filtered", otherwise INVALID_REQUEST. *)
C1_AsClaimed ==
    BadRequestDone =>
        /\ Returned
        /\ result.value.status =
              IF Contains(awaited.message, "maximum context length") THEN "TOO_LONG"
              ELSE IF Contains(awaited.message, "filtered") THEN "BLOCKED"
              ELSE "INVALID_REQUEST"

(* C1, amended: for a bad-request fault send_prompt returns TOO_LONG when the
   fault message contains "This model's maximum context length", otherwise
   BLOCKED when it contains "filtered", otherwise INVALID_REQUEST; a message
   with both markers yields TOO_LONG. *)
C1_Classification ==
    BadRequestDone =>
        /\ Returned
        /\ result.value.status =
              IF Contains(awaited.message, "This model's maximum context length")
              THEN "TOO_LONG"
              ELSE IF Contains(awaited.message, "filtered") THEN "BLOCKED"
              ELSE "INVALID_REQUEST"
        /\ (/\ Contains(awaited.message, "This model's maximum context length")
            /\ Contains(awaited.message, "filtered"))
               => result.value.status # "BLOCKED"

C1_Witness ==
    /\ BadRequestDone
    /\ Contains(awaited.message, "This model's maximum context length")
    /\ Contains(awaited.message, "filtered")
    /\ Returned
    /\ result.value.status = "TOO_LONG"

(* C2: every CompletionData returned by send_prompt has exactly one of
   reply_text / status_text non-absent: reply_text alone iff the status is
   OK, status_text alone iff the status is one of the four error statuses. *)
C2_ExactlyOneText ==
    (SendDone /\ Returned) =>
        LET d == result.value
        IN  /\ (d.reply_text # None) # (d.status_text # None)
            /\ (d.status = "OK") <=> (d.reply_text # None /\ d.status_text = None)
            /\ (d.status \in CompletionResult \ {"OK"})
                   <=> (d.status_text # None /\ d.reply_text = None)

(* C3: a fault that is not of the bad-request class, raised by the backend
   call or while the reply is extracted from the response, ends send_prompt
   with a returned CompletionData of status OTHER_ERROR whose status_text is
   the stringified fault, whatever the fault's message contains. *)
C3_OtherFaultsConverted ==
    /\ (/\ SendDone
        /\ awaited.kind = "raise"
        /\ awaited.cls \notin {"BadRequestError", "CancelledError"})
          => result = Return(CompletionData("OTHER_ERROR", None, Str(awaited.message)))
    /\ (/\ SendDone
        /\ awaited.kind = "return"
        /\ awaited.value.choices = <<>>)
          => result = Return(CompletionData("OTHER_ERROR", None,
                                            Str("list index out of range")))

C3_Witness ==
    /\ SendDone
    /\ awaited.kind = "raise"
    /\ awaited.cls = "APIConnectionError"
    /\ Contains(awaited.message, "filtered")
    /\ Returned
    /\ result.value.status = "OTHER_ERROR"
    /\ result.value.status_text = Str(awaited.message)

(* C4: when the task awaiting send_prompt is cancelled while the backend
   call is in flight, send_prompt still returns a CompletionData with status
   OTHER_ERROR and the cancellation does not reach the caller. *)
C4_CancellationConverted ==
    (/\ SendDone
     /\ awaited.kind = "raise"
     /\ awaited.cls = "CancelledError")
       => (Returned /\ result.value.status = "OTHER_ERROR")

(* C5: every invocation of send_prompt calls _create_chat_completion exactly
   once whatever the outcome, issues at most one request to the client (one
   whenever the client and the model are set), has no request in flight once
   it has ended, and returns a CompletionData after the one answer of the
   backend, a fault of any class included. *)
C5_SingleBackendCall ==
    /\ createCalls <= 1
    /\ requests <= 1
    /\ (pc = "awaiting") => (createCalls = 1 /\ requests = 1 /\ request # None)
    /\ SendDone =>
          /\ createCalls = 1
          /\ request = None
          /\ requests = (IF client = "ready" /\ model # None THEN 1 ELSE 0)
          /\ (awaited \in BackendOutcomes) =>
                (Returned /\ result.value.status \in CompletionResult)

C5_Witness ==
    /\ SendDone
    /\ awaited.kind = "raise"
    /\ awaited.cls \in {"BadRequestError", "APITimeoutError"}
    /\ createCalls = 1
    /\ requests = 1

============================================================================
